---------------------------- MODULE Spec2Model ----------------------------
(***************************************************************************)
(* Model of Assignments/Assignment-4/assignment-4.py: the multi-source     *)
(* summarization pipeline (load_source, summarize_text, save_output, main).*)
(*                                                                         *)
(* Text is a sequence of one-character strings, so that len(), slicing,    *)
(* str.strip(), str.split(), startswith() and endswith() are computed on   *)
(* the characters as Python computes them.  None and the empty string are  *)
(* both the empty sequence wherever the code only tests truthiness         *)
(* (args.output, args.query).                                              *)
(*                                                                         *)
(* Not modelled: load_dotenv / construction of the OpenAI client (assumed  *)
(* to succeed), install_and_import beyond "may raise", the prompt string   *)
(* summarize_text builds from its arguments, and the progress lines        *)
(* printed inside the Map loop.  The console variable holds what is        *)
(* printed from the "no usable summaries" message onwards.  file_text is   *)
(* emptied when an iteration ends: the code never reads it again before    *)
(* the next load_source call assigns it.                                   *)
(***************************************************************************)
EXTENDS Integers, Sequences, FiniteSets, TLC

---------------------------------------------------------------------------
(* Bounds of the model *)

\* longest list of sources given on the command line
MaxSources == 2
\* loaded documents are at most MAX_CHARS + MaxOver characters long
MaxOver == 1
\* short documents have at most MaxShort characters
MaxShort == 1
\* final answers handed to save_output on its own: at most MaxAnswer characters
MaxAnswer == 4

---------------------------------------------------------------------------
(* Python string primitives *)

\* str.isspace() on one character (the whitespace of the model's alphabet)
IsSpace(c) == c \in {" ", "\t", "\n", "\r", "\f"}

\* s.strip(): s without its leading and trailing whitespace
Strip(s) ==
    LET n == Len(s)
    IN  IF \A i \in 1..n : IsSpace(s[i]) THEN <<>>
        ELSE LET lo == CHOOSE i \in 1..n :
                           ~IsSpace(s[i]) /\ \A j \in 1..(i - 1) : IsSpace(s[j])
                 hi == CHOOSE i \in 1..n :
                           ~IsSpace(s[i]) /\ \A j \in (i + 1)..n : IsSpace(s[j])
             IN  SubSeq(s, lo, hi)

\* s.startswith(p)
StartsWith(s, p) == Len(s) >= Len(p) /\ SubSeq(s, 1, Len(p)) = p

\* s.endswith(p)
EndsWith(s, p) == Len(s) >= Len(p) /\ SubSeq(s, Len(s) - Len(p) + 1, Len(s)) = p

\* s[:n]
Prefix(s, n) == SubSeq(s, 1, IF Len(s) < n THEN Len(s) ELSE n)

\* s.rfind(c), 1-based; 0 when c does not occur (Python's -1)
RFind(s, c) ==
    LET at == {i \in 1..Len(s) : s[i] = c}
    IN  IF at = {} THEN 0 ELSE CHOOSE i \in at : \A j \in at : j <= i

\* s.split(sep) for a one-character separator: never an empty list
RECURSIVE Split(_, _)
Split(s, sep) ==
    LET at == {i \in 1..Len(s) : s[i] = sep}
    IN  IF at = {} THEN <<s>>
        ELSE LET k == CHOOSE i \in at : \A j \in at : i <= j
             IN  <<SubSeq(s, 1, k - 1)>> \o Split(SubSeq(s, k + 1, Len(s)), sep)

\* sep.join(parts) for a one-character separator
RECURSIVE Join(_, _)
Join(parts, sep) ==
    IF parts = <<>> THEN <<>>
    ELSE IF Len(parts) = 1 THEN parts[1]
    ELSE parts[1] \o <<sep>> \o Join(Tail(parts), sep)

UpperLetters == <<"A","B","C","D","E","F","G","H","I","J","K","L","M",
                  "N","O","P","Q","R","S","T","U","V","W","X","Y","Z">>
LowerLetters == <<"a","b","c","d","e","f","g","h","i","j","k","l","m",
                  "n","o","p","q","r","s","t","u","v","w","x","y","z">>

\* s.lower()
Lower(s) ==
    [i \in 1..Len(s) |->
        IF \E k \in 1..26 : UpperLetters[k] = s[i]
        THEN LowerLetters[CHOOSE k \in 1..26 : UpperLetters[k] = s[i]]
        ELSE s[i]]

\* os.path.splitext(p)[1] on POSIX: the suffix from the last dot of the last
\* path component, unless that component has only dots before it
SplitExt(p) ==
    LET sepIndex == RFind(p, "/")
        dotIndex == RFind(p, ".")
    IN  IF dotIndex > sepIndex
           /\ \E k \in (sepIndex + 1)..(dotIndex - 1) : p[k] # "."
        THEN SubSeq(p, dotIndex, Len(p))
        ELSE <<>>


---------------------------------------------------------------------------
(* The world outside the program *)

MAX_CHARS == 12000

\* What a source can hold: a document of n characters of one of three shapes
\*   "letters"  only the letter a
\*   "blank"    only spaces
\*   "pad"      spaces, then the letter a as the last character
DocShapes == {"letters", "blank", "pad"}
DocLengths == (0..MaxShort) \cup (MAX_CHARS..(MAX_CHARS + MaxOver))
Docs == [n : DocLengths, shape : DocShapes]

Content(d) ==
    LET text == [k \in 1..d.n |->
                    IF d.shape = "letters" THEN "a"
                    ELSE IF d.shape = "blank" THEN " "
                    ELSE IF k = d.n THEN "a" ELSE " "]
    IN  SubSeq(text, 1, d.n)

NoDoc == [n |-> 0, shape |-> "none"]

\* What the handler of a source does when called: it raises, or it yields a document
LoadReplies == {[raises |-> TRUE, doc |-> NoDoc]} \cup {[raises |-> FALSE, doc |-> d] : d \in Docs}

\* What the chat-completion endpoint does when called: it raises, or it answers
Answers == {<<" ","s","1","\n">>, <<>>}
LLMReplies == {[raises |-> TRUE, content |-> <<>>]} \cup {[raises |-> FALSE, content |-> a] : a \in Answers}

\* What the file system does when the Output Writer writes
WriteOutcomes == {"ok", "open_failed", "write_failed"}

---------------------------------------------------------------------------
(* load_source *)

HTTP_PREFIX == <<"h","t","t","p",":","/","/">>
HTTPS_PREFIX == <<"h","t","t","p","s",":","/","/">>
PDF_SUFFIX == <<".","p","d","f">>
DOCX_SUFFIX == <<".","d","o","c","x">>
CSV_SUFFIX == <<".","c","s","v">>
TXT_SUFFIX == <<".","t","x","t">>

\* Mutant of Handled: the except branch puts the error message into text
Handled_ErrorText(handler, reply) ==
    [text |-> IF reply.raises THEN <<"E","r","r","o","r">> ELSE Content(reply.doc),
     used |-> <<handler>>]

\* One branch of load_source: the handler is called inside the try; when it
\* raises, text keeps its initial value ""
Handled(handler, reply) ==
    [text |-> IF reply.raises THEN <<>> ELSE Content(reply.doc), used |-> <<handler>>]

\* Mutant of load_source: the extension is looked at before the web scheme
load_source_ExtensionFirst(source_path, reply) ==
    IF EndsWith(source_path, PDF_SUFFIX)
    THEN Handled("PyPDF2", reply)
    ELSE IF EndsWith(source_path, DOCX_SUFFIX)
    THEN Handled("docx", reply)
    ELSE IF StartsWith(source_path, HTTP_PREFIX) \/ StartsWith(source_path, HTTPS_PREFIX)
    THEN Handled("requests.get", reply)
    ELSE Handled("open", reply)

load_source(source_path, reply) ==
    IF StartsWith(source_path, HTTP_PREFIX) \/ StartsWith(source_path, HTTPS_PREFIX)
    THEN Handled("requests.get", reply)
    ELSE IF EndsWith(source_path, PDF_SUFFIX)
    THEN Handled("PyPDF2", reply)
    ELSE IF EndsWith(source_path, DOCX_SUFFIX)
    THEN Handled("docx", reply)
    ELSE IF EndsWith(source_path, CSV_SUFFIX) \/ EndsWith(source_path, TXT_SUFFIX)
    THEN Handled("open", reply)
    ELSE Handled("open", reply)

---------------------------------------------------------------------------
(* summarize_text *)

\* Mutant of summarize_text: the except branch returns the error message
summarize_text_ErrorText(text, q, reply) ==
    IF reply.raises THEN <<"E","r","r","o","r">> ELSE Strip(reply.content)

\* The value summarize_text returns: the stripped answer, or "" when the call
\* (or reading its answer) raises
summarize_text(text, q, reply) ==
    IF reply.raises THEN <<>> ELSE Strip(reply.content)

---------------------------------------------------------------------------
(* save_output *)

EXT_TXT == <<".","t","x","t">>
EXT_PDF == <<".","p","d","f">>
EXT_DOCX == <<".","d","o","c","x">>
EXT_CSV == <<".","c","s","v">>

\* A written file: its format and its body, a sequence of rows of cells
\* (txt: one cell; pdf, docx: one paragraph per row; csv: one row per writerow)
Artifact(fmt, body) == [fmt |-> fmt, body |-> body, complete |-> TRUE]

\* Mutant of CsvRows: the columns are not stripped
CsvRows_Unstripped(result_text) ==
    LET lines == Split(result_text, "\n")
    IN  [k \in 1..Len(lines) |->
            IF \E j \in 1..Len(lines[k]) : lines[k][j] = ","
            THEN Split(lines[k], ",")
            ELSE <<lines[k]>>]

\* the rows csv.writer is given
CsvRows(result_text) ==
    LET lines == Split(result_text, "\n")
    IN  [k \in 1..Len(lines) |->
            IF \E j \in 1..Len(lines[k]) : lines[k][j] = ","
            THEN LET cols == Split(lines[k], ",")
                 IN  [c \in 1..Len(cols) |-> Strip(cols[c])]
            ELSE <<lines[k]>>]

\* the paragraphs doc.add_paragraph is given
DocxParagraphs(result_text) ==
    LET lines == Split(result_text, "\n")
    IN  [k \in 1..Len(lines) |-> <<lines[k]>>]

\* the paragraphs of the PDF story: the lines with line.strip() non-empty
PdfStory(result_text) ==
    LET lines == Split(result_text, "\n")
        F[k \in 0..Len(lines)] ==
            IF k = 0 THEN <<>>
            ELSE IF Strip(lines[k]) # <<>> THEN Append(F[k - 1], <<lines[k]>>)
            ELSE F[k - 1]
    IN  F[Len(lines)]

\* The try block of a supported format: the file as written, or what a raised
\* exception leaves behind
Written(a, outcome) ==
    IF outcome = "ok" THEN [file |-> <<a>>, report |-> "saved"]
    ELSE IF outcome = "open_failed" THEN [file |-> <<>>, report |-> "error"]
    ELSE [file |-> <<[fmt |-> a.fmt, body |-> <<>>, complete |-> FALSE]>>, report |-> "error"]

\* Mutant of save_output: an unknown extension is written as plain text
save_output_DefaultsToTxt(result_text, output_path, outcome) ==
    LET ext == Lower(SplitExt(output_path))
    IN  IF ext = EXT_PDF THEN Written(Artifact("pdf", PdfStory(result_text)), outcome)
        ELSE IF ext = EXT_DOCX THEN Written(Artifact("docx", DocxParagraphs(result_text)), outcome)
        ELSE IF ext = EXT_CSV THEN Written(Artifact("csv", CsvRows(result_text)), outcome)
        ELSE Written(Artifact("txt", <<<<result_text>>>>), outcome)

save_output(result_text, output_path, outcome) ==
    LET ext == Lower(SplitExt(output_path))
    IN  IF ext = EXT_TXT THEN Written(Artifact("txt", <<<<result_text>>>>), outcome)
        ELSE IF ext = EXT_PDF THEN Written(Artifact("pdf", PdfStory(result_text)), outcome)
        ELSE IF ext = EXT_DOCX THEN Written(Artifact("docx", DocxParagraphs(result_text)), outcome)
        ELSE IF ext = EXT_CSV THEN Written(Artifact("csv", CsvRows(result_text)), outcome)
        ELSE [file |-> <<>>, report |-> "error"]

---------------------------------------------------------------------------
(* main *)

VARIABLES
    sources,        \* args.sources
    query,          \* args.query (<<>>: not given)
    output,         \* args.output (<<>>: not given)
    pc,             \* where main is
    idx,            \* how many sources the for loop has taken
    file_text,      \* file_text of the current iteration
    handlers,       \* the handlers the last load_source call invoked
    loaded,         \* history: what the handler of the last source taken did
    loadedBlank,    \* history: per source taken, whether its loaded text was blank
    summaries,      \* summaries
    llm,            \* the summarize_text calls in flight
    replied,        \* history: what the endpoint did in the call that just returned
    mapCalls,       \* Map calls started
    reduceCalls,    \* Reduce calls started
    final_answer,   \* final_answer
    console,        \* what main printed, from the end of the Map loop on
    files,          \* what is at the output path: <<>> or <<artifact>>
    writes,         \* save_output calls made
    exit_status     \* the process exit status; -1 while running

vars == <<sources, query, output, pc, idx, file_text, handlers, loaded, loadedBlank,
          summaries, llm, replied, mapCalls, reduceCalls, final_answer, console,
          files, writes, exit_status>>

\* The sources, queries and output paths runs are given
SourceRefs == {<<"a",".","t","x","t">>,
               <<"h","t","t","p",":","/","/","h","/","m",".","p","d","f">>}
Queries == {<<>>, <<"q","?">>}
OutputPaths == {<<>>, <<"o",".","C","S","V">>, <<"o",".","x","y","z">>}

SourceLists == UNION {[1..n -> SourceRefs] : n \in 0..MaxSources}

MAP_QUERY == <<"S","u","m","m","a","r","i","z","e"," ","t","h","i","s"," ","f","i","l","e"," ","i","n"," ","d","e","t","a","i","l",".">>
RECORD_HEAD == <<"-","-","-"," ","S","u","m","m","a","r","y"," ","o","f"," ">>
RECORD_MID == <<" ","-","-","-","\n">>

\* f"--- Summary of {source} ---\n{summary}\n"
SummaryRecord(source, summary) == RECORD_HEAD \o source \o RECORD_MID \o summary \o <<"\n">>

\* Mutant of Truncated: the slice keeps one character too many
Truncated_OneTooMany(text) ==
    IF Len(text) > MAX_CHARS THEN Prefix(text, MAX_CHARS + 1) ELSE text

\* file_text[:MAX_CHARS] when len(file_text) > MAX_CHARS
Truncated(text) == IF Len(text) > MAX_CHARS THEN Prefix(text, MAX_CHARS) ELSE text

\* Mutant of SkipsSource: the text is tested without .strip()
SkipsSource_NoStrip(text) == text = <<>>

\* if not file_text.strip(): ... continue
SkipsSource(text) == Strip(text) = <<>>

\* history only: the text has no character that is not whitespace
IsBlank(text) == \A k \in 1..Len(text) : IsSpace(text[k])

NoReply == [raises |-> FALSE, doc |-> NoDoc]
NoCall == [kind |-> "none", raises |-> FALSE]

\* main is entered with the command line's arguments
Started(lists, queries, outputs) ==
    /\ sources \in lists
    /\ query \in queries
    /\ output \in outputs
    /\ pc = "parse_args"
    /\ idx = 0
    /\ file_text = <<>>
    /\ handlers = <<>>
    /\ loaded = NoReply
    /\ loadedBlank = <<>>
    /\ summaries = <<>>
    /\ llm = <<>>
    /\ replied = NoCall
    /\ mapCalls = 0
    /\ reduceCalls = 0
    /\ final_answer = <<>>
    /\ console = <<>>
    /\ files = <<>>
    /\ writes = 0
    /\ exit_status = -1

Init == Started(SourceLists, Queries, OutputPaths)

\* parser.parse_args(): sources is nargs='+', so argparse ends the process
\* with status 2 when no source is given
ParseArgs ==
    /\ pc = "parse_args"
    /\ IF Len(sources) = 0
       THEN pc' = "exited" /\ exit_status' = 2
       ELSE pc' = "for" /\ UNCHANGED exit_status
    /\ UNCHANGED <<sources, query, output, idx, file_text, handlers, loaded, loadedBlank,
                   summaries, llm, replied, mapCalls, reduceCalls, final_answer, console,
                   files, writes>>

\* file_text = load_source(source) for the next source of the loop
LoadNext ==
    /\ pc = "for"
    /\ idx < Len(sources)
    /\ \E reply \in LoadReplies :
          LET got == load_source(sources[idx + 1], reply)
          IN  /\ file_text' = got.text
              /\ handlers' = got.used
              /\ loaded' = reply
              /\ loadedBlank' = Append(loadedBlank, IsBlank(file_text'))
    /\ idx' = idx + 1
    /\ replied' = NoCall
    /\ pc' = "loaded"
    /\ UNCHANGED <<sources, query, output, summaries, llm, mapCalls, reduceCalls,
                   final_answer, console, files, writes, exit_status>>

\* if not file_text.strip(): continue
SkipBlank ==
    /\ pc = "loaded"
    /\ SkipsSource(file_text)
    /\ pc' = "for"
    /\ file_text' = <<>>
    /\ loaded' = [raises |-> loaded.raises, doc |-> NoDoc]
    /\ UNCHANGED <<sources, query, output, idx, handlers, loadedBlank, summaries, llm,
                   replied, mapCalls, reduceCalls, final_answer, console, files, writes,
                   exit_status>>

\* the truncation, and the call summarize_text(client, file_text, "Summarize
\* this file in detail.") up to the request being sent
MapCall ==
    /\ pc = "loaded"
    /\ ~SkipsSource(file_text)
    /\ file_text' = Truncated(file_text)
    /\ llm' = Append(llm, [kind |-> "map", text |-> file_text', q |-> MAP_QUERY])
    /\ mapCalls' = mapCalls + 1
    /\ pc' = "map"
    /\ UNCHANGED <<sources, query, output, idx, handlers, loaded, loadedBlank, summaries,
                   replied, reduceCalls, final_answer, console, files, writes, exit_status>>

\* the call returns (or raises inside summarize_text); the record is appended
MapReturn ==
    /\ pc = "map"
    /\ \E reply \in LLMReplies :
          /\ summaries' = Append(summaries,
                 SummaryRecord(sources[idx], summarize_text(llm[1].text, llm[1].q, reply)))
          /\ replied' = [kind |-> "map", raises |-> reply.raises]
    /\ llm' = <<>>
    /\ pc' = "for"
    /\ file_text' = <<>>
    /\ loaded' = NoReply
    /\ UNCHANGED <<sources, query, output, idx, handlers, loadedBlank, mapCalls,
                   reduceCalls, final_answer, console, files, writes, exit_status>>

\* Mutant of NoSummaries: the message is printed but sys.exit(1) is missing
NoSummaries_FallsThrough ==
    /\ pc = "for"
    /\ idx = Len(sources)
    /\ summaries = <<>>
    /\ console' = Append(console, [kind |-> "no_summaries", text |-> <<>>])
    /\ llm' = Append(llm, [kind |-> "reduce", text |-> Join(summaries, "\n"), q |-> query])
    /\ reduceCalls' = reduceCalls + 1
    /\ replied' = NoCall
    /\ pc' = "reduce"
    /\ UNCHANGED <<sources, query, output, idx, file_text, handlers, loaded, loadedBlank,
                   summaries, mapCalls, final_answer, files, writes, exit_status>>

\* if not summaries: sys.exit(1)
NoSummaries ==
    /\ pc = "for"
    /\ idx = Len(sources)
    /\ summaries = <<>>
    /\ console' = Append(console, [kind |-> "no_summaries", text |-> <<>>])
    /\ exit_status' = 1
    /\ pc' = "exited"
    /\ UNCHANGED <<sources, query, output, idx, file_text, handlers, loaded, loadedBlank,
                   summaries, llm, replied, mapCalls, reduceCalls, final_answer, files, writes>>

\* Mutant of ReduceCall: the Reduce step is indented into the for loop
ReduceCall_InsideLoop ==
    /\ pc = "for"
    /\ summaries # <<>>
    /\ llm' = Append(llm, [kind |-> "reduce", text |-> Join(summaries, "\n"), q |-> query])
    /\ reduceCalls' = reduceCalls + 1
    /\ replied' = NoCall
    /\ pc' = "reduce"
    /\ UNCHANGED <<sources, query, output, idx, file_text, handlers, loaded, loadedBlank,
                   summaries, mapCalls, final_answer, console, files, writes, exit_status>>

\* combined_text = "\n".join(summaries); summarize_text(client, combined_text,
\* args.query) up to the request being sent
ReduceCall ==
    /\ pc = "for"
    /\ idx = Len(sources)
    /\ summaries # <<>>
    /\ llm' = Append(llm, [kind |-> "reduce", text |-> Join(summaries, "\n"), q |-> query])
    /\ reduceCalls' = reduceCalls + 1
    /\ replied' = NoCall
    /\ pc' = "reduce"
    /\ UNCHANGED <<sources, query, output, idx, file_text, handlers, loaded, loadedBlank,
                   summaries, mapCalls, final_answer, console, files, writes, exit_status>>

\* the call returns; the result block is printed
ReduceReturn ==
    /\ pc = "reduce"
    /\ \E reply \in LLMReplies :
          /\ final_answer' = summarize_text(llm[1].text, llm[1].q, reply)
          /\ console' = Append(console, [kind |-> "final_result", text |-> final_answer'])
          /\ replied' = [kind |-> "reduce", raises |-> reply.raises]
    /\ llm' = <<>>
    /\ pc' = "printed"
    /\ UNCHANGED <<sources, query, output, idx, file_text, handlers, loaded, loadedBlank,
                   summaries, mapCalls, reduceCalls, files, writes, exit_status>>

\* if args.output: save_output(final_answer, args.output); main returns
SaveAndReturn ==
    /\ pc = "printed"
    /\ IF output # <<>>
       THEN \E outcome \in WriteOutcomes :
               LET w == save_output(final_answer, output, outcome)
               IN  /\ files' = w.file
                   /\ console' = Append(console, [kind |-> w.report, text |-> output])
                   /\ writes' = writes + 1
       ELSE UNCHANGED <<files, console, writes>>
    /\ exit_status' = 0
    /\ pc' = "done"
    /\ UNCHANGED <<sources, query, output, idx, file_text, handlers, loaded, loadedBlank,
                   summaries, llm, replied, mapCalls, reduceCalls, final_answer>>

Next ==
    \/ ParseArgs
    \/ LoadNext
    \/ SkipBlank
    \/ MapCall
    \/ MapReturn
    \/ NoSummaries
    \/ ReduceCall
    \/ ReduceReturn
    \/ SaveAndReturn

Spec == Init /\ [][Next]_vars

---------------------------------------------------------------------------
(* load_source on its own: runs over one source, drawn from references of   *)
(* every kind the dispatch distinguishes                                     *)

HttpRefs == {<<"h","t","t","p",":","/","/","h","/","a",".","p","d","f">>,
             <<"h","t","t","p","s",":","/","/","h","/","b",".","d","o","c","x">>,
             <<"h","t","t","p",":","/","/","h">>}
PdfRefs == {<<"m",".","p","d","f">>,
            <<"f","t","p",":","/","/","h","/","x",".","p","d","f">>}
DocxRefs == {<<"d",".","d","o","c","x">>}
PlainRefs == {<<"a",".","t","x","t">>,
              <<"c",".","c","s","v">>,
              <<"n","o","t","e","s">>,
              <<"R",".","P","D","F">>,
              <<"x",".","p","d","f",".","t","x","t">>,
              <<"h","t","t","p","x",".","d","o","c">>}
LoadRefs == HttpRefs \cup PdfRefs \cup DocxRefs \cup PlainRefs

InitLoad == Started({<<r>> : r \in LoadRefs}, {<<>>}, {<<>>})

SpecLoad == InitLoad /\ [][Next]_vars

---------------------------------------------------------------------------
(* save_output on its own: main after it printed the result block of a run  *)
(* over one source, with the final answer and the output path drawn from    *)
(* wider sets                                                                *)

AnswerAlphabet == {"a", ",", " ", "\n"}
\* what summarize_text can return: the stripped texts
FinalAnswers ==
    {t \in UNION {[1..n -> AnswerAlphabet] : n \in 0..MaxAnswer} : Strip(t) = t}

SupportedPaths == {<<"o",".","t","x","t">>,
                   <<"o",".","C","S","V">>,
                   <<"r",".","P","d","f">>,
                   <<"d",".","d","o","c","x">>,
                   <<"a",".","b","/","o",".","T","X","T">>}
UnsupportedPaths == {<<"o",".","x","y","z">>,
                     <<"n","o","t","e","s">>,
                     <<".","t","x","t">>,
                     <<"o",".","t","x","t",".","b","a","k">>,
                     <<"o",".","c","s","v","/","x">>}
SavePaths == SupportedPaths \cup UnsupportedPaths

A_TXT == <<"a",".","t","x","t">>

InitPrinted ==
    /\ sources = <<A_TXT>>
    /\ query = <<>>
    /\ output \in SavePaths \cup {<<>>}
    /\ pc = "printed"
    /\ idx = 1
    /\ file_text = <<>>
    /\ handlers = <<"open">>
    /\ loaded = NoReply
    /\ loadedBlank = <<FALSE>>
    /\ summaries = <<SummaryRecord(A_TXT, <<"s","1">>)>>
    /\ llm = <<>>
    /\ replied = [kind |-> "reduce", raises |-> FALSE]
    /\ mapCalls = 1
    /\ reduceCalls = 1
    /\ final_answer \in FinalAnswers
    /\ console = <<[kind |-> "final_result", text |-> final_answer]>>
    /\ files = <<>>
    /\ writes = 0
    /\ exit_status = -1

NextSave == SaveAndReturn

SpecSave == InitPrinted /\ [][NextSave]_vars

---------------------------------------------------------------------------
(* Properties *)

\* the iterations of the Map loop that have ended
Finished == IF pc \in {"loaded", "map"} THEN idx - 1 ELSE idx

\* the first n sources whose loaded text was not blank, in input order
RECURSIVE NonBlankTaken(_)
NonBlankTaken(n) ==
    IF n = 0 THEN <<>>
    ELSE IF loadedBlank[n] THEN NonBlankTaken(n - 1)
    ELSE Append(NonBlankTaken(n - 1), n)

\* every source was taken and its loaded text was blank (true of the empty list)
AllBlank ==
    /\ Len(loadedBlank) = Len(sources)
    /\ \A k \in 1..Len(sources) : loadedBlank[k]

Terminated == exit_status # -1

\* C1: at every point of the Map loop, and so when it finishes, summaries
\* holds exactly one record per source taken so far whose loaded text was not
\* blank, none for any other source, in the order of the sources
C1_RecordsMatchSources ==
    LET took == NonBlankTaken(Finished)
    IN  /\ Len(summaries) = Len(took)
        /\ \A j \in 1..Len(took) :
              StartsWith(summaries[j], RECORD_HEAD \o sources[took[j]] \o RECORD_MID)

\* the loop finished over two different sources, the first blank, the second not
C1_Witness ==
    /\ pc = "reduce"
    /\ Len(sources) = 2
    /\ sources[1] # sources[2]
    /\ loadedBlank = <<TRUE, FALSE>>
    /\ Len(summaries) = 1

\* C2: the text of a Map call is at most MAX_CHARS long; it is the first
\* MAX_CHARS characters of a longer loaded text, and the loaded text itself
\* otherwise
C2_SubmittedWithinBudget ==
    pc = "map" =>
        LET sent == llm[1].text
            orig == Content(loaded.doc)
        IN  /\ Len(sent) <= MAX_CHARS
            /\ Len(orig) > MAX_CHARS =>
                  Len(sent) = MAX_CHARS /\ sent = SubSeq(orig, 1, MAX_CHARS)
            /\ Len(orig) <= MAX_CHARS => sent = orig

\* a Map call in flight for a text that was longer than MAX_CHARS
C2_Witness ==
    /\ pc = "map"
    /\ loaded.doc.n > MAX_CHARS
    /\ Len(llm[1].text) = MAX_CHARS

\* C3 as claimed: with no source, or with every source blank, the run ends
\* with status 1, without a Reduce call and without an output file
C3_Original ==
    (Terminated /\ AllBlank) =>
        /\ exit_status = 1
        /\ reduceCalls = 0
        /\ files = <<>>

\* C3 as amended: with no source the run ends with status 2 (argparse rejects
\* the command line) and with every source blank it ends with status 1; either
\* way no summarize_text call is made and nothing is written
C3_Amended ==
    /\ AllBlank => pc \in {"parse_args", "loaded", "for", "exited"}
    /\ (Terminated /\ AllBlank) =>
          /\ exit_status = (IF sources = <<>> THEN 2 ELSE 1)
          /\ mapCalls = 0
          /\ reduceCalls = 0
          /\ writes = 0
          /\ files = <<>>

\* two blank sources, an output path given, the run has ended with status 1
C3_Witness ==
    /\ exit_status = 1
    /\ Len(sources) = 2
    /\ AllBlank
    /\ output # <<>>

\* C4: at most one summarize_text call is in flight; a Map call starts only
\* when every earlier one has returned; the Reduce call is made once, after
\* every source was taken and every Map call returned, over the joined records
\* and the query; a run that ends with a record made it exactly once
C4_OneReduceAfterAllMaps ==
    /\ Len(llm) <= 1
    /\ mapCalls - Len(summaries) = (IF pc = "map" THEN 1 ELSE 0)
    /\ pc = "map" => llm[1].kind = "map"
    /\ reduceCalls = (IF pc \in {"reduce", "printed", "done"} THEN 1 ELSE 0)
    /\ pc \in {"reduce", "printed", "done"} =>
          /\ idx = Len(sources)
          /\ summaries # <<>>
    /\ pc = "reduce" =>
          llm = <<[kind |-> "reduce", text |-> Join(summaries, "\n"), q |-> query]>>
    /\ (Terminated /\ summaries # <<>>) => reduceCalls = 1

\* a run over two sources, both summarized, has ended
C4_Witness ==
    /\ pc = "done"
    /\ Len(summaries) = 2
    /\ mapCalls = 2
    /\ reduceCalls = 1

\* C5: a Map call that raised leaves a record with an empty summary for its
\* source and the run goes on; a Reduce call that raised leaves an empty final
\* answer, which is printed; after either main has a next step until it
\* returns, and a run that made any call ends with status 0
C5_FailedCallsDegrade ==
    /\ (replied.kind = "map" /\ replied.raises) =>
          /\ pc = "for"
          /\ exit_status = -1
          /\ summaries # <<>>
          /\ summaries[Len(summaries)] = SummaryRecord(sources[idx], <<>>)
    /\ (replied.kind = "reduce" /\ replied.raises) =>
          /\ pc \in {"printed", "done"}
          /\ final_answer = <<>>
          /\ console[1] = [kind |-> "final_result", text |-> <<>>]
    /\ (replied.raises /\ pc # "done") => ENABLED Next
    /\ (Terminated /\ mapCalls + reduceCalls > 0) => exit_status = 0
    /\ pc = "done" => exit_status = 0

\* the Reduce call raised and the run has ended normally
C5_Witness ==
    /\ pc = "done"
    /\ exit_status = 0
    /\ replied.kind = "reduce"
    /\ replied.raises
    /\ output # <<>>

\* C6: when the handler of a source raises, load_source returns "", the run
\* is not ended, the source is skipped and gets no record, and main goes on
\* with the next source or the end of the loop; a run over at least one source
\* ends only after every source was taken, and with status 0 as soon as one
\* source was not blank
C6_LoadFailureSkipsSource ==
    /\ loaded.raises =>
          /\ pc = "loaded" => (file_text = <<>> /\ exit_status = -1 /\ ENABLED SkipBlank)
          /\ pc = "for" => (exit_status = -1 /\ ENABLED Next)
          /\ loadedBlank[idx]
          /\ Len(summaries) = Len(NonBlankTaken(idx - 1))
    /\ (Terminated /\ sources # <<>>) =>
          /\ idx = Len(sources)
          /\ Len(loadedBlank) = Len(sources)
    /\ (Terminated /\ \E k \in 1..Len(loadedBlank) : ~loadedBlank[k]) =>
          /\ exit_status = 0
          /\ reduceCalls = 1

\* the first source gave a record, the second failed to load, the run ended
C6_Witness ==
    /\ pc = "done"
    /\ exit_status = 0
    /\ loaded.raises
    /\ Len(sources) = 2
    /\ Len(summaries) = 1
    /\ reduceCalls = 1

\* C7: main ends with status 0 whatever save_output met; the result block was
\* printed before save_output reported; for a path whose extension is not one
\* of the four formats save_output reports an error and there is no file
C7_UnsupportedExtensionReported ==
    pc = "done" =>
        /\ exit_status = 0
        /\ console[1] = [kind |-> "final_result", text |-> final_answer]
        /\ output # <<>> =>
              /\ writes = 1
              /\ Len(console) = 2
              /\ console[2].kind \in {"saved", "error"}
              /\ console[2].kind = "saved" => files # <<>>
        /\ output \in UnsupportedPaths =>
              /\ files = <<>>
              /\ console[2] = [kind |-> "error", text |-> output]

\* save_output was called with an unsupported path and main has returned
C7_Witness ==
    /\ pc = "done"
    /\ output \in UnsupportedPaths
    /\ final_answer # <<>>
    /\ writes = 1

HasComma(line) == \E j \in 1..Len(line) : line[j] = ","

CsvWritten == pc = "done" /\ files # <<>> /\ files[1].fmt = "csv" /\ files[1].complete

\* C8 as claimed: one row per line; a line with a comma becomes the pieces
\* between its commas, any other line a single column
C8_Original ==
    CsvWritten =>
        LET lines == Split(final_answer, "\n")
            rows == files[1].body
        IN  /\ Len(rows) = Len(lines)
            /\ \A k \in 1..Len(lines) :
                  rows[k] = IF HasComma(lines[k]) THEN Split(lines[k], ",")
                            ELSE <<lines[k]>>

\* C8 as amended: one row per line (one more than the text has newlines); a
\* line with a comma becomes the pieces between its commas, each stripped of
\* leading and trailing whitespace; any other line is a single column holding
\* the line verbatim
C8_Amended ==
    CsvWritten =>
        LET lines == Split(final_answer, "\n")
            rows == files[1].body
        IN  /\ Len(rows) = 1 + Cardinality({i \in 1..Len(final_answer) : final_answer[i] = "\n"})
            /\ Len(rows) = Len(lines)
            /\ \A k \in 1..Len(lines) :
                  IF HasComma(lines[k])
                  THEN LET pieces == Split(lines[k], ",")
                       IN  /\ Len(rows[k]) = Len(pieces)
                           /\ \A c \in 1..Len(pieces) : rows[k][c] = Strip(pieces[c])
                  ELSE rows[k] = <<lines[k]>>

\* a csv file was written for an answer with a comma next to a space
C8_Witness ==
    /\ CsvWritten
    /\ HasComma(final_answer)
    /\ \E i \in 1..Len(final_answer) : final_answer[i] = " "

C10_SubmittedNeverBlank ==
    pc = "map" => ~IsBlank(llm[1].text)

=============================================================================
